---------------------------- MODULE Spec2Model ----------------------------
(***************************************************************************)
(* Model of the ETH smart-money signal job (main.py) and of the price      *)
(* bootstrap script (bootstrap_prices.py).                                 *)
(*                                                                         *)
(* Data frames are sequences of records, parquet files are records         *)
(* [exists, rows].  A float cell is an integer, or one of the two nulls    *)
(* pandas distinguishes: the Python object None and the float NaN.         *)
(* Z-scores are real numbers; the model computes them exactly, as a sign   *)
(* and the square of the magnitude (a fraction of arbitrary-length         *)
(* naturals).                                                              *)
(***************************************************************************)
EXTENDS Integers, Sequences, FiniteSets, TLC

(***************************************************************************)
(* Float cells.  A cell is a record [k, v]: a number v (k = "num"), the    *)
(* Python object None, or the float NaN.                                   *)
(***************************************************************************)
Num(n) == [k |-> "num", v |-> n]
None == [k |-> "None", v |-> 0]
NaN == [k |-> "NaN", v |-> 0]

IsNum(x) == x.k = "num"

\* pd.isna: true of None and of NaN
isna(x) == x.k = "None" \/ x.k = "NaN"

\* a function on 1..n as the sequence of its values
AsSeq(f) == SubSeq(f, 1, Len(f))

(***************************************************************************)
(* Arbitrary-length naturals: little-endian sequences of limbs in          *)
(* 0..Base-1 without leading zero limbs (<<>> is 0).  They stand for the   *)
(* exact values of the sums the exponentially weighted statistics are      *)
(* made of.                                                                *)
(***************************************************************************)
Base == 100 * 100

Limb(a, i) == IF i <= Len(a) THEN a[i] ELSE 0

RECURSIVE BTrim(_)
BTrim(a) ==
    IF a = <<>> THEN <<>>
    ELSE IF a[Len(a)] = 0 THEN BTrim(SubSeq(a, 1, Len(a) - 1))
    ELSE a

RECURSIVE BOfNat(_)
BOfNat(n) == IF n = 0 THEN <<>> ELSE <<n % Base>> \o BOfNat(n \div Base)

RECURSIVE BAddFrom(_, _, _, _)
BAddFrom(a, b, i, c) ==
    IF i > Len(a) /\ i > Len(b)
    THEN (IF c = 0 THEN <<>> ELSE <<c>>)
    ELSE LET s == Limb(a, i) + Limb(b, i) + c
         IN  <<s % Base>> \o BAddFrom(a, b, i + 1, s \div Base)

BAdd(a, b) == BAddFrom(a, b, 1, 0)

\* a - b for a >= b
RECURSIVE BSubFrom(_, _, _, _)
BSubFrom(a, b, i, c) ==
    IF i > Len(a) THEN <<>>
    ELSE LET s == a[i] - Limb(b, i) - c
         IN  IF s < 0 THEN <<s + Base>> \o BSubFrom(a, b, i + 1, 1)
             ELSE <<s>> \o BSubFrom(a, b, i + 1, 0)

BSub(a, b) == BTrim(BSubFrom(a, b, 1, 0))

\* a * k for a natural k < Base
RECURSIVE BScaleFrom(_, _, _, _)
BScaleFrom(a, k, i, c) ==
    IF i > Len(a) THEN BOfNat(c)
    ELSE LET s == a[i] * k + c
         IN  <<s % Base>> \o BScaleFrom(a, k, i + 1, s \div Base)

BScale(a, k) == IF k = 0 THEN <<>> ELSE BScaleFrom(a, k, 1, 0)

RECURSIVE BMulFrom(_, _, _)
BMulFrom(a, b, i) ==
    IF i > Len(a) THEN <<>>
    ELSE LET rest == BMulFrom(a, b, i + 1)
             sh   == IF rest = <<>> THEN <<>> ELSE <<0>> \o rest
         IN  BAdd(BScale(b, a[i]), sh)

BMul(a, b) == IF a = <<>> \/ b = <<>> THEN <<>> ELSE BMulFrom(a, b, 1)

\* a * n for any natural n
BTimes(a, n) == BMul(a, BOfNat(n))

RECURSIVE BCmpFrom(_, _, _)
BCmpFrom(a, b, i) ==
    IF i = 0 THEN 0
    ELSE IF a[i] > b[i] THEN 1
    ELSE IF a[i] < b[i] THEN -1
    ELSE BCmpFrom(a, b, i - 1)

\* -1, 0, 1 as a < b, a = b, a > b
BCmp(a, b) ==
    IF Len(a) > Len(b) THEN 1
    ELSE IF Len(a) < Len(b) THEN -1
    ELSE BCmpFrom(a, b, Len(a))

BLess(a, b) == BCmp(a, b) = -1

RECURSIVE BPow(_, _)
BPow(n, k) == IF k = 0 THEN <<1>> ELSE BScale(BPow(n, k - 1), n)

Abs(x) == IF x < 0 THEN -x ELSE x

(***************************************************************************)
(* Configuration (main.py, Config).                                        *)
(***************************************************************************)
ROLL_SPAN == 60
MIN_PERIODS == 5

\* ewm(span): alpha = 2 / (span + 1), so one step of age multiplies a
\* weight by 1 - alpha = (span - 1) / (span + 1)
DecayNum == ROLL_SPAN - 1
DecayDen == ROLL_SPAN + 1

(***************************************************************************)
(* Z-score values: a finite real sg * sqrt(n / d) (k = "num", sg in        *)
(* {-1, 0, 1}, n and d naturals, d > 0), NaN, or an infinity.              *)
(***************************************************************************)
ZNum(sg, n, d) ==
    IF sg = 0 \/ n = <<>>
    THEN [k |-> "num", sg |-> 0, n |-> <<>>, d |-> <<1>>]
    ELSE [k |-> "num", sg |-> sg, n |-> n, d |-> d]
ZZero == ZNum(0, <<>>, <<1>>)
ZNaN == [k |-> "NaN", sg |-> 0, n |-> <<>>, d |-> <<1>>]
ZInf(sg) == [k |-> "Inf", sg |-> sg, n |-> <<>>, d |-> <<1>>]

ZIsNaN(z) == z.k = "NaN"
ZIsInf(z) == z.k = "Inf"
ZIsFinite(z) == z.k = "num"

\* z > p / q for naturals p, q > 0 (a comparison with NaN is False)
ZGreater(z, p, q) ==
    \/ z.k = "Inf" /\ z.sg = 1
    \/ /\ z.k = "num"
       /\ z.sg = 1
       /\ BLess(BTimes(z.d, p * p), BTimes(z.n, q * q))

\* z < 0
ZNegative(z) == z.k \in {"num", "Inf"} /\ z.sg = -1

(***************************************************************************)
(* series.ewm(span, min_periods) with pandas' defaults adjust=True,        *)
(* ignore_na=False: at row i the observation of row j <= i weighs          *)
(* (1 - alpha)^(i - j); null rows carry no weight but age the others.      *)
(* EwmStep keeps the running sums of one pass over the series, all scaled  *)
(* by DecayDen^t (t rows since the first observation; Q by its square):    *)
(*   W = sum w, Q = sum w^2, SP - SN = sum w x, S2 = sum w x^2.            *)
(***************************************************************************)
EwmEmpty ==
    [nobs |-> 0, unit |-> <<1>>, unit2 |-> <<1>>, W |-> <<>>, Q |-> <<>>,
     SP |-> <<>>, SN |-> <<>>, S2 |-> <<>>]

EwmObserve(st, x) ==
    LET pos == IF x.v > 0 THEN x.v ELSE 0
        neg == IF x.v < 0 THEN -x.v ELSE 0
    IN  [st EXCEPT !.nobs = @ + 1,
                   !.W = BAdd(@, st.unit),
                   !.Q = BAdd(@, st.unit2),
                   !.SP = BAdd(@, BScale(st.unit, pos)),
                   !.SN = BAdd(@, BScale(st.unit, neg)),
                   !.S2 = BAdd(@, BScale(st.unit, x.v * x.v))]

EwmAge(st) ==
    [st EXCEPT !.unit = BScale(@, DecayDen),
               !.unit2 = BScale(@, DecayDen * DecayDen),
               !.W = BScale(@, DecayNum),
               !.Q = BScale(@, DecayNum * DecayNum),
               !.SP = BScale(@, DecayNum),
               !.SN = BScale(@, DecayNum),
               !.S2 = BScale(@, DecayNum)]

EwmStep(st, x) ==
    LET aged == IF st.nobs = 0 THEN st ELSE EwmAge(st)
    IN  IF isna(x) THEN aged ELSE EwmObserve(aged, x)

RECURSIVE EwmFrom(_, _, _)
EwmFrom(series, i, st) ==
    IF i > Len(series) THEN <<>>
    ELSE LET nxt == EwmStep(st, series[i])
         IN  <<nxt>> \o EwmFrom(series, i + 1, nxt)

\* the running sums after each row of the series
Ewm(series) == EwmFrom(series, 1, EwmEmpty)

\* .mean(): the weighted mean (SP - SN) / W, NaN before min_periods
\* observations
ewm_mean(st, min_periods) ==
    IF st.nobs < min_periods \/ st.nobs = 0
    THEN [k |-> "NaN", SP |-> <<>>, SN |-> <<>>, W |-> <<1>>]
    ELSE [k |-> "num", SP |-> st.SP, SN |-> st.SN, W |-> st.W]

\* .std() (bias=False), given by its square num / den:
\*   var = (sum w (x - mean)^2 / W) * W^2 / (W^2 - Q)
\*       = (W * S2 - (SP - SN)^2) / (W^2 - Q),
\* NaN before min_periods observations and with a single observation
ewm_std(st, min_periods) ==
    LET s1  == IF BLess(st.SP, st.SN) THEN BSub(st.SN, st.SP)
               ELSE BSub(st.SP, st.SN)
        den == BSub(BMul(st.W, st.W), st.Q)
    IN  IF st.nobs < min_periods \/ st.nobs = 0 \/ den = <<>>
        THEN [k |-> "NaN", num |-> <<>>, den |-> <<1>>]
        ELSE [k |-> "num",
              num |-> BSub(BMul(st.W, st.S2), BMul(s1, s1)),
              den |-> den]

\* 1e-12, squared: 1 / 10^24
EpsSquared == [k |-> "num", num |-> <<1>>, den |-> BPow(10, 24)]

\* the standard deviation as it is, had line 94 no .replace(0, 1e-12)
replace_absent(std) == std

\* .replace(0, 1e-12)
replace_zero(std) ==
    IF std.k = "num" /\ std.num = <<>> THEN EpsSquared ELSE std

\* (x - mean) / std in float arithmetic: NaN when an operand is NaN and
\* for 0 / 0, an infinity for a non-zero numerator over 0
zquotient(x, mean, std) ==
    IF isna(x) \/ mean.k = "NaN" \/ std.k = "NaN" THEN ZNaN
    ELSE LET pos == IF x.v > 0 THEN x.v ELSE 0
             neg == IF x.v < 0 THEN -x.v ELSE 0
             \* x - mean = (a - b) / W
             a   == BAdd(BScale(mean.W, pos), mean.SN)
             b   == BAdd(BScale(mean.W, neg), mean.SP)
             sg  == BCmp(a, b)
             D   == IF sg = -1 THEN BSub(b, a) ELSE BSub(a, b)
         IN  IF std.num = <<>>
             THEN (IF sg = 0 THEN ZNaN ELSE ZInf(sg))
             ELSE ZNum(sg, BMul(BMul(D, D), std.den),
                           BMul(BMul(mean.W, mean.W), std.num))

\* the quotient as it is, had line 96 no .fillna(0.0)
fillna_absent(z) == z

\* .fillna(0.0)
fillna_zero(z) == IF ZIsNaN(z) THEN ZZero ELSE z

\* .replace([inf, -inf], 0.0)
replace_inf(z) == IF ZIsInf(z) THEN ZZero ELSE z

zscore_row(x, st, min_periods) ==
    replace_inf(fillna_zero(
        zquotient(x, ewm_mean(st, min_periods),
                  replace_zero(ewm_std(st, min_periods)))))

zscore_with(series, min_periods) ==
    LET sts == Ewm(series)
    IN  AsSeq([i \in 1..Len(series) |->
                  zscore_row(series[i], sts[i], min_periods)])

zscore_ewm(series) == zscore_with(series, MIN_PERIODS)

(***************************************************************************)
(* Bounds of the model.                                                    *)
(***************************************************************************)
\* runs happen on the days 0..MaxDay
MaxDay == 1
\* daily bars the exchange returns to the bootstrap script
MaxBars == 8
MaxRuns == 2

(***************************************************************************)
(* State.                                                                  *)
(***************************************************************************)
VARIABLES
    legacy_concat, \* the installed pandas: concat leaves all-null columns out
                   \* of the result's dtype (up to 2.x) or not (from 3.0 on)
    today,         \* TODAY = date.today() of the running process (a day number)
    F_SM,          \* data/eth_smart_money_flows.parquet
    F_EX,          \* data/eth_exchange_flows.parquet
    F_PX,          \* data/eth_prices.parquet
    F_SIG,         \* data/eth_signals.parquet
    signals_all,   \* the table the last run's build_signal returned
    sent,          \* what the last run handed to send_telegram
    runs,          \* how many times a script has been started so far
    arg,           \* the arguments of a function studied on its own
    ret            \* what that function returned

vars ==
    <<legacy_concat, today, F_SM, F_EX, F_PX, F_SIG, signals_all, sent, runs,
      arg, ret>>

\* a parquet file: absent, or the rows written last; a file whose write
\* did not finish is not whole and cannot be read
NoFile == [exists |-> FALSE, whole |-> TRUE, rows |-> <<>>]
FileOf(df) == [exists |-> TRUE, whole |-> TRUE, rows |-> df]

(***************************************************************************)
(* Data-frame helpers.                                                     *)
(***************************************************************************)
RECURSIVE Pick(_, _, _)
\* the rows of df whose index is in keep, in the order of df
Pick(df, keep, i) ==
    IF i > Len(df) THEN <<>>
    ELSE (IF i \in keep THEN <<df[i]>> ELSE <<>>) \o Pick(df, keep, i + 1)

Dates(df) == {df[i].ts : i \in 1..Len(df)}

HasDate(df, d) == \E i \in 1..Len(df) : df[i].ts = d

\* the row of df dated d, in a frame with unique dates
RowAt(df, d) == df[CHOOSE i \in 1..Len(df) : df[i].ts = d]

\* what keep="first" would leave of the same frame
keep_first_rows(df) ==
    Pick(df, {i \in 1..Len(df) :
                 \A j \in 1..(i - 1) : df[j].ts # df[i].ts}, 1)

\* df.drop_duplicates(subset=["ts"], keep="last")
drop_duplicates_last(df) ==
    Pick(df, {i \in 1..Len(df) :
                 \A j \in (i + 1)..Len(df) : df[j].ts # df[i].ts}, 1)

\* df.drop_duplicates(subset=["ts"]): pandas' default keep="first"
drop_duplicates_first(df) ==
    Pick(df, {i \in 1..Len(df) :
                 \A j \in 1..(i - 1) : df[j].ts # df[i].ts}, 1)

RECURSIVE InsertByTs(_, _)
\* r put into the ts-sorted sequence s after the rows with ts <= r.ts
InsertByTs(s, r) ==
    IF s = <<>> THEN <<r>>
    ELSE IF s[Len(s)].ts <= r.ts THEN Append(s, r)
    ELSE Append(InsertByTs(SubSeq(s, 1, Len(s) - 1), r), s[Len(s)])

RECURSIVE SortPrefix(_, _)
SortPrefix(df, n) ==
    IF n = 0 THEN <<>> ELSE InsertByTs(SortPrefix(df, n - 1), df[n])

\* df.sort_values("ts"): a stable sort by ts, ascending
sort_values(df) == SortPrefix(df, Len(df))

IsSorted(df) == \A i \in 1..(Len(df) - 1) : df[i].ts <= df[i + 1].ts

UniqueDates(df) ==
    \A i, j \in 1..Len(df) : df[i].ts = df[j].ts => i = j

\* The dtype of a column that can hold None.  A column holding any float
\* (a number or NaN) is float64 / parquet double, and its None cells are
\* NaN; a column holding nothing but None stays an object column of None.
HasFlow(r) == "exchange_flow_usd" \in DOMAIN r

AsFloat64(df) ==
    IF \E i \in 1..Len(df) :
           HasFlow(df[i]) /\ df[i].exchange_flow_usd.k # "None"
    THEN AsSeq([i \in 1..Len(df) |->
                   IF HasFlow(df[i]) /\ df[i].exchange_flow_usd.k = "None"
                   THEN [df[i] EXCEPT !.exchange_flow_usd = NaN]
                   ELSE df[i]])
    ELSE df

(***************************************************************************)
(* Utils (main.py).                                                        *)
(***************************************************************************)
\* pd.read_parquet / the empty frame for a missing file
read_parquet_safe(path) == IF path.exists THEN path.rows ELSE <<>>

\* df.to_parquet(path, index=False): the whole file is replaced; read back,
\* the rows come in the order written, with the column types of AsFloat64
to_parquet(df) == FileOf(AsFloat64(df))

\* pd.concat([df_old, df_new], ignore_index=True).  Up to pandas 2.x an
\* all-null object column does not take part in the result's dtype, so the
\* result is float64 whenever the other frame's column is; from pandas 3.0
\* on the result is an object column and None stays None.
concat(df_old, df_new) ==
    IF legacy_concat THEN AsFloat64(df_old \o df_new) ELSE df_old \o df_new

\* append_parquet: the frame returned, and the file written
append_parquet(df_new, path) ==
    LET df_old == read_parquet_safe(path)
        df_all == drop_duplicates_last(concat(df_old, df_new))
    IN  [df |-> df_all, file |-> to_parquet(df_all)]

(***************************************************************************)
(* Signal calc (main.py, build_signal).                                    *)
(***************************************************************************)
RECURSIVE Ascending(_)
\* the dates of a set in ascending order
Ascending(S) ==
    IF S = {} THEN <<>>
    ELSE LET m == CHOOSE x \in S : \A y \in S : x <= y
         IN  <<m>> \o Ascending(S \ {m})

\* sm_df.set_index("ts").join(ex_df.set_index("ts"), how="outer")
\*      .join(px_df.set_index("ts"), how="outer").sort_index()
\* for frames with unique dates: one row per date of any frame, ascending;
\* the columns of a frame without a row for the date are NaN
merged_frame(sm_df, ex_df, px_df) ==
    LET idx == Ascending(Dates(sm_df) \cup Dates(ex_df) \cup Dates(px_df))
    IN  AsSeq([i \in 1..Len(idx) |->
           LET d == idx[i]
               inSm == HasDate(sm_df, d)
           IN  [ts |-> d,
                symbol |-> IF inSm THEN RowAt(sm_df, d).symbol ELSE "NaN",
                volume24hUSD |->
                    IF inSm THEN RowAt(sm_df, d).volume24hUSD ELSE NaN,
                volume7dUSD |->
                    IF inSm THEN RowAt(sm_df, d).volume7dUSD ELSE NaN,
                volume30dUSD |->
                    IF inSm THEN RowAt(sm_df, d).volume30dUSD ELSE NaN,
                exchange_flow_usd |->
                    IF HasDate(ex_df, d)
                    THEN RowAt(ex_df, d).exchange_flow_usd ELSE NaN,
                price_usd |->
                    IF HasDate(px_df, d)
                    THEN RowAt(px_df, d).price_usd ELSE NaN]])

\* Returns are held in percent: cur / prev - 1 is the cell
\* 100 * cur / prev - 100, exact for the prices the model draws (each
\* divides 100 times any other).  A NaN operand gives NaN.
pct_return(cur, prev) ==
    IF isna(cur) \/ isna(prev) THEN NaN
    ELSE Num((100 * cur.v) \div prev.v - 100)

RECURSIVE pad(_, _)
\* the first n rows of a series, nulls filled with the last value above
pad(series, n) ==
    IF n = 0 THEN <<>>
    ELSE LET above == pad(series, n - 1)
         IN  Append(above, IF isna(series[n]) /\ n > 1 THEN above[n - 1]
                           ELSE series[n])

\* series.pct_change(k) with pandas' former default fill_method="pad"
pct_change_pad(series, k) ==
    LET filled == pad(series, Len(series))
    IN  AsSeq([i \in 1..Len(series) |->
            IF i <= k THEN NaN ELSE pct_return(filled[i], filled[i - k])])

\* series.pct_change(k, fill_method=None): row i against the row k
\* positions above it, NaN in the first k rows
pct_change(series, k) ==
    AsSeq([i \in 1..Len(series) |->
        IF i <= k THEN NaN ELSE pct_return(series[i], series[i - k])])

\* a - b on z-scores, kept as the pair of its operands; NaN when an
\* operand is NaN or the operands are the same infinity
z_minus(a, b) ==
    IF ZIsNaN(a) \/ ZIsNaN(b) \/ (ZIsInf(a) /\ ZIsInf(b) /\ a.sg = b.sg)
    THEN [k |-> "NaN", a |-> ZNaN, b |-> ZNaN]
    ELSE [k |-> "num", a |-> a, b |-> b]

\* x <= n on a float cell (a comparison with NaN is False)
CellLeq(x, n) == IsNum(x) /\ x.v <= n

\* decide without the test of line 406
decide_from_line_410(row) ==
    IF /\ ZGreater(row.sm_7d_z, 3, 2)
       /\ row.px_ret_7d.k # "None" /\ CellLeq(row.px_ret_7d, 0)
       /\ \/ row.exchange_flow_usd.k = "None"
          \/ CellLeq(row.exchange_flow_usd, 0)
    THEN "long"
    ELSE IF ZNegative(row.sm_7d_z) THEN "flat"
    ELSE "hold"

\* decide(row)
decide(row) ==
    IF ZIsNaN(row.sm_7d_z) \/ isna(row.px_ret_7d) THEN "hold"
    ELSE IF /\ ZGreater(row.sm_7d_z, 3, 2)
            /\ row.px_ret_7d.k # "None" /\ CellLeq(row.px_ret_7d, 0)
            /\ \/ row.exchange_flow_usd.k = "None"
               \/ CellLeq(row.exchange_flow_usd, 0)
         THEN "long"
    ELSE IF ZNegative(row.sm_7d_z) THEN "flat"
    ELSE "hold"

Col(df, name) == AsSeq([i \in 1..Len(df) |-> df[i][name]])

\* df["price_usd"].pct_change(k, fill_method=None)
returns(df, k) == pct_change(Col(df, "price_usd"), k)

build_signal(sm_df, ex_df, px_df) ==
    LET df           == merged_frame(sm_df, ex_df, px_df)
        px_ret_7d    == returns(df, 7)
        px_ret_30d   == returns(df, 30)
        sm_7d_z      == zscore_ewm(Col(df, "volume7dUSD"))
        sm_30d_z     == zscore_ewm(Col(df, "volume30dUSD"))
        px_ret_7d_z  == zscore_ewm(px_ret_7d)
        px_ret_30d_z == zscore_ewm(px_ret_30d)
        derived ==
            AsSeq([i \in 1..Len(df) |->
                [ts |-> df[i].ts,
                 symbol |-> df[i].symbol,
                 volume24hUSD |-> df[i].volume24hUSD,
                 volume7dUSD |-> df[i].volume7dUSD,
                 volume30dUSD |-> df[i].volume30dUSD,
                 exchange_flow_usd |-> df[i].exchange_flow_usd,
                 price_usd |-> df[i].price_usd,
                 px_ret_7d |-> px_ret_7d[i],
                 px_ret_30d |-> px_ret_30d[i],
                 sm_7d_z |-> sm_7d_z[i],
                 sm_30d_z |-> sm_30d_z[i],
                 px_ret_7d_z |-> px_ret_7d_z[i],
                 px_ret_30d_z |-> px_ret_30d_z[i],
                 divergence_7d |-> z_minus(sm_7d_z[i], px_ret_7d_z[i]),
                 divergence_30d |-> z_minus(sm_30d_z[i], px_ret_30d_z[i]),
                 signal |-> "NA"]])
    IN  AsSeq([i \in 1..Len(df) |->
            [derived[i] EXCEPT !.signal = decide(derived[i])]])

(***************************************************************************)
(* Fetchers: what the three providers can answer in one run.               *)
(***************************************************************************)
\* fetch_smart_money_inflows_eth: the aggregated volumes, never null
SMFetch ==
    {[volume24hUSD |-> Num(0), volume7dUSD |-> Num(0), volume30dUSD |-> Num(0)],
     [volume24hUSD |-> Num(1), volume7dUSD |-> Num(2), volume30dUSD |-> Num(3)]}

\* fetch_flow_intelligence_eth: a float, or None when every payload failed
ExFetch == {None, Num(-1), Num(1)}

\* fetch_kraken_price_eth / pull_ohlc: a daily close
Prices == {100, 200}

sm_frame(v) ==
    <<[ts |-> today, symbol |-> "ETH_BASKET_MULTI",
       volume24hUSD |-> v.volume24hUSD, volume7dUSD |-> v.volume7dUSD,
       volume30dUSD |-> v.volume30dUSD]>>

ex_frame(x) == <<[ts |-> today, exchange_flow_usd |-> x]>>

px_frame(c) == <<[ts |-> today, price_usd |-> Num(c)]>>

(***************************************************************************)
(* Main (main.py, main).                                                   *)
(***************************************************************************)
\* a test that holds of every series append_parquet returns
seed_whenever(sm_all) == Len(sm_all) >= 1

\* the first-run test of the seeding
seed_condition(sm_all) == Len(sm_all) = 1

\* the rows built for i in range(6, 0, -1)
seed_rows ==
    AsSeq([n \in 1..6 |->
        [ts |-> today - (7 - n), symbol |-> "ETH/WETH",
         volume24hUSD |-> Num(0), volume7dUSD |-> Num(0),
         volume30dUSD |-> Num(0)]])

\* the smart-money part of a run: append today's row, seed on a first run
sm_step(v) ==
    LET first == append_parquet(sm_frame(v), F_SM)
    IN  IF seed_condition(first.df)
        THEN append_parquet(seed_rows, first.file)
        ELSE first

\* the same selection, falling back to signals_all.head(1)
today_row_or_head(table) ==
    LET hit == {i \in 1..Len(table) : table[i].ts = today}
    IN  IF hit # {} THEN Pick(table, hit, 1)
        ELSE IF table = <<>> THEN <<>>
        ELSE <<table[1]>>

\* signals_all[signals_all["ts"] == TODAY], or signals_all.tail(1)
today_row(table) ==
    LET hit == {i \in 1..Len(table) : table[i].ts = today}
    IN  IF hit # {} THEN Pick(table, hit, 1)
        ELSE IF table = <<>> THEN <<>>
        ELSE <<table[Len(table)]>>

\* a run of main() in which every fetch answers
Run(v, x, c) ==
    LET sm  == sm_step(v)
        ex  == append_parquet(ex_frame(x), F_EX)
        px  == append_parquet(px_frame(c), F_PX)
        tbl == build_signal(sm.df, ex.df, px.df)
        sig == today_row(tbl)
    IN  /\ runs < MaxRuns
        /\ runs' = runs + 1
        /\ F_SM' = sm.file
        /\ F_EX' = ex.file
        /\ F_PX' = px.file
        /\ signals_all' = tbl
        /\ F_SIG' = append_parquet(sig, F_SIG).file
        /\ sent' = [kind |-> "signal", row |-> <<sig[Len(sig)]>>]
        /\ UNCHANGED <<legacy_concat, today, arg, ret>>

\* a run of main() in which the price request raises: the smart-money and
\* exchange-flow files are written, the except branch reports the error
RunPriceFails(v, x) ==
    /\ runs < MaxRuns
    /\ runs' = runs + 1
    /\ F_SM' = sm_step(v).file
    /\ F_EX' = append_parquet(ex_frame(x), F_EX).file
    /\ sent' = [kind |-> "error", row |-> <<>>]
    /\ UNCHANGED <<legacy_concat, today, F_PX, F_SIG, signals_all, arg, ret>>

(***************************************************************************)
(* bootstrap_prices.py                                                     *)
(***************************************************************************)
days == 90

\* the last n rows of a frame: rows[-n:]
LastRows(rows, n) ==
    IF Len(rows) <= n THEN rows ELSE SubSeq(rows, Len(rows) - n + 1, Len(rows))

\* pull_ohlc(days): the exchange's daily bars up to today, oldest first,
\* here all closing at c
pull_ohlc(n, c) ==
    LastRows(AsSeq([i \in 1..MaxBars |->
                 [ts |-> today - MaxBars + i, price_usd |-> Num(c)]]), n)

\* the merge of the script's main block
bootstrap_merge(old, df) == sort_values(drop_duplicates_first(old \o df))

Bootstrap(c) ==
    LET df == pull_ohlc(days, c)
    IN  /\ runs < MaxRuns
        /\ runs' = runs + 1
        /\ F_PX' = IF F_PX.exists
                   THEN to_parquet(bootstrap_merge(read_parquet_safe(F_PX), df))
                   ELSE to_parquet(df)
        /\ UNCHANGED <<legacy_concat, today, F_SM, F_EX, F_SIG, signals_all,
                       sent, arg, ret>>

(***************************************************************************)
(* The next day: a later process sees a later date.today().                *)
(***************************************************************************)
NextDay ==
    /\ today < MaxDay
    /\ today' = today + 1
    /\ UNCHANGED <<legacy_concat, F_SM, F_EX, F_PX, F_SIG, signals_all, sent,
                   runs, arg, ret>>

\* before the first run: no data file, nothing computed, nothing sent
NoData ==
    /\ runs = 0
    /\ today = 0
    /\ F_SM = NoFile
    /\ F_EX = NoFile
    /\ F_PX = NoFile
    /\ F_SIG = NoFile
    /\ signals_all = <<>>
    /\ sent = [kind |-> "none", row |-> <<>>]

Init ==
    /\ legacy_concat \in BOOLEAN
    /\ NoData
    /\ arg = <<>>
    /\ ret = <<>>

Next ==
    \/ \E v \in SMFetch, x \in ExFetch, c \in Prices : Run(v, x, c)
    \/ \E v \in SMFetch, x \in ExFetch : RunPriceFails(v, x)
    \/ \E c \in Prices : Bootstrap(c)
    \/ NextDay

Spec == Init /\ [][Next]_vars

\* C2: every stored series reads back sorted ascending by date, after any
\* sequence of runs -- the first run, which appends today's row and then
\* the six seed rows, included.
C2_ReadSorted ==
    /\ IsSorted(read_parquet_safe(F_SM))
    /\ IsSorted(read_parquet_safe(F_EX))
    /\ IsSorted(read_parquet_safe(F_PX))
    /\ IsSorted(read_parquet_safe(F_SIG))

(***************************************************************************)
(* The deployment in which bootstrap_prices.py has filled the price file   *)
(* before main.py runs for the first time; runs are counted from there.    *)
(***************************************************************************)
BootedInit ==
    /\ legacy_concat \in BOOLEAN
    /\ runs = 0
    /\ today = 0
    /\ F_SM = NoFile
    /\ F_EX = NoFile
    /\ \E c \in Prices : F_PX = to_parquet(pull_ohlc(days, c))
    /\ F_SIG = NoFile
    /\ signals_all = <<>>
    /\ sent = [kind |-> "none", row |-> <<>>]
    /\ arg = <<>>
    /\ ret = <<>>

\* from there on main.py runs, once or more a day
BootedNext ==
    \/ \E v \in SMFetch, x \in ExFetch, c \in Prices : Run(v, x, c)
    \/ NextDay

SpecBooted == BootedInit /\ [][BootedNext]_vars

\* C4: every row of the signal table whose 7-day smart-money z-score is
\* above 1.5, whose 7-day return is a number <= 0 and whose exchange flow
\* is a number <= 0 or null (a stored null, or the null of the outer join)
\* has the signal long.
C4_LongRule ==
    \A i \in 1..Len(signals_all) :
        LET r == signals_all[i]
        IN  (/\ ZGreater(r.sm_7d_z, 3, 2)
             /\ CellLeq(r.px_ret_7d, 0)
             /\ \/ CellLeq(r.exchange_flow_usd, 0)
                \/ isna(r.exchange_flow_usd))
            => r.signal = "long"

\* rows decide can be given: a z-score that is NaN, -1, 0, 1.5 or 2, a
\* return and an exchange flow that are null or a number
DecideRows ==
    [sm_7d_z : {ZNaN, ZNum(-1, <<1>>, <<1>>), ZZero, ZNum(1, <<9>>, <<4>>),
                ZNum(1, <<4>>, <<1>>)},
     px_ret_7d : {NaN, None, Num(-50), Num(0), Num(100)},
     exchange_flow_usd : {NaN, None, Num(-1), Num(0), Num(1)}]

\* C5: a row whose 7-day smart-money z-score is null or whose 7-day
\* return is null has the signal hold, whatever its other columns: in
\* every signal table a run builds, and for decide on any row.
C5_MissingHold ==
    /\ \A i \in 1..Len(signals_all) :
          LET r == signals_all[i]
          IN  (ZIsNaN(r.sm_7d_z) \/ isna(r.px_ret_7d)) => r.signal = "hold"
    /\ \A row \in DecideRows :
          (ZIsNaN(row.sm_7d_z) \/ isna(row.px_ret_7d)) => decide(row) = "hold"

\* a row without a 7-day return whose negative z-score would make it flat
C5_Witness ==
    \E i \in 1..Len(signals_all) :
        /\ isna(signals_all[i].px_ret_7d)
        /\ ZNegative(signals_all[i].sm_7d_z)
        /\ signals_all[i].signal = "hold"

\* C6: in every row of the signal table, a null smart-money volume or a
\* null k-day return leaves the z-score of that input and the divergence
\* of that horizon null.
C6_NullPropagates ==
    \A i \in 1..Len(signals_all) :
        LET r == signals_all[i]
        IN  /\ isna(r.volume7dUSD) =>
                   ZIsNaN(r.sm_7d_z) /\ r.divergence_7d.k = "NaN"
            /\ isna(r.volume30dUSD) =>
                   ZIsNaN(r.sm_30d_z) /\ r.divergence_30d.k = "NaN"
            /\ isna(r.px_ret_7d) =>
                   ZIsNaN(r.px_ret_7d_z) /\ r.divergence_7d.k = "NaN"
            /\ isna(r.px_ret_30d) =>
                   ZIsNaN(r.px_ret_30d_z) /\ r.divergence_30d.k = "NaN"

\* C6, amended: a missing price leaves the k-day returns of its row null,
\* but no z-score and no divergence of the signal table is ever null: the
\* z-score of a null smart-money volume or of a null k-day return is 0.0,
\* every z-score is finite, and each divergence is the difference of the
\* two z-scores of its horizon.
C6_ZeroFilled ==
    \A i \in 1..Len(signals_all) :
        LET r == signals_all[i]
        IN  /\ isna(r.price_usd) => isna(r.px_ret_7d) /\ isna(r.px_ret_30d)
            /\ \A c \in {"sm_7d_z", "sm_30d_z", "px_ret_7d_z", "px_ret_30d_z"} :
                   ZIsFinite(r[c])
            /\ isna(r.volume7dUSD) => r.sm_7d_z = ZZero
            /\ isna(r.volume30dUSD) => r.sm_30d_z = ZZero
            /\ isna(r.px_ret_7d) => r.px_ret_7d_z = ZZero
            /\ isna(r.px_ret_30d) => r.px_ret_30d_z = ZZero
            /\ r.divergence_7d = [k |-> "num", a |-> r.sm_7d_z, b |-> r.px_ret_7d_z]
            /\ r.divergence_30d =
                   [k |-> "num", a |-> r.sm_30d_z, b |-> r.px_ret_30d_z]

\* a table with a date the smart-money series has no row for, a row
\* without a 7-day return, and a row whose z-score is not zero
C6_Witness ==
    /\ \E i \in 1..Len(signals_all) :
          isna(signals_all[i].volume7dUSD) /\ signals_all[i].sm_7d_z = ZZero
    /\ \E i \in 1..Len(signals_all) :
          isna(signals_all[i].px_ret_7d) /\ signals_all[i].px_ret_7d_z = ZZero
    /\ \E i \in 1..Len(signals_all) : signals_all[i].sm_7d_z # ZZero

\* the synthetic rows of a smart-money series
Synthetic(df) == {df[i] : i \in {j \in 1..Len(df) : df[j].symbol = "ETH/WETH"}}

\* the six rows the seeding makes on day d
SeedsOf(d) ==
    {[ts |-> d - n, symbol |-> "ETH/WETH", volume24hUSD |-> Num(0),
      volume7dUSD |-> Num(0), volume30dUSD |-> Num(0)] : n \in 1..6}

\* C9: the run that creates the smart-money series leaves it with 7 rows
\* of unique dates: today's row and six synthetic rows of zero volumes for
\* the six days before today; every later run, the same day or a later
\* day, leaves the synthetic rows as they are and replaces no stored row
\* of another day.
C9_SeedOnce ==
    [][LET old == F_SM.rows
           new == F_SM'.rows
       IN  /\ (~F_SM.exists /\ F_SM'.exists) =>
                  /\ Len(new) = 7
                  /\ UniqueDates(new)
                  /\ Synthetic(new) = SeedsOf(today)
                  /\ HasDate(new, today)
                  /\ RowAt(new, today).symbol = "ETH_BASKET_MULTI"
           /\ F_SM.exists =>
                  /\ Synthetic(new) = Synthetic(old)
                  /\ \A i \in 1..Len(old) :
                         old[i].ts # today => \E j \in 1..Len(new) : new[j] = old[i]
      ]_vars

\* after a first run on day 0 and a run on day 1: 8 rows, the six
\* synthetic ones of day 0 and the rows of the two runs
C9_Witness ==
    /\ today = 1
    /\ Len(F_SM.rows) = 8
    /\ Synthetic(F_SM.rows) = SeedsOf(0)
    /\ \A d \in {0, 1} :
          HasDate(F_SM.rows, d) /\ RowAt(F_SM.rows, d).symbol = "ETH_BASKET_MULTI"

\* C10: a run of bootstrap_prices.py leaves, for every date of the bars
\* it pulled, exactly one row in the price file, holding the close it
\* pulled -- also when the file held another price for that date.
C10_BootstrapNewestWins ==
    [][\A c \in Prices :
          Bootstrap(c) =>
              LET df == pull_ohlc(days, c)
                  new == F_PX'.rows
              IN  \A i \in 1..Len(df) :
                      /\ Cardinality({j \in 1..Len(new) : new[j].ts = df[i].ts}) = 1
                      /\ RowAt(new, df[i].ts).price_usd = df[i].price_usd
      ]_vars

(***************************************************************************)
(* append_parquet on its own: any stored price series with unique dates,   *)
(* in any order, and any new rows; the append is applied once or twice.    *)
(***************************************************************************)
\* the date keys of the series are 0..MaxKey
MaxKey == 2
\* rows of the stored series, rows of new_rows
MaxStored == 2
MaxNew == 2

SeqsUpTo(S, n) == UNION {[1..k -> S] : k \in 0..n}

PriceRows == {[ts |-> d, price_usd |-> Num(c)] : d \in 0..MaxKey, c \in Prices}

StoreInit ==
    /\ legacy_concat \in BOOLEAN
    /\ runs = 0
    /\ today = 0
    /\ F_SM = NoFile
    /\ F_EX = NoFile
    /\ F_SIG = NoFile
    /\ signals_all = <<>>
    /\ sent = [kind |-> "none", row |-> <<>>]
    /\ \E old \in {df \in SeqsUpTo(PriceRows, MaxStored) : UniqueDates(df)} :
          /\ F_PX = IF old = <<>> THEN NoFile ELSE FileOf(old)
          /\ ret = [n |-> 0, old |-> old, df |-> <<>>]
    /\ arg \in SeqsUpTo(PriceRows, MaxNew) \ {<<>>}

\* append_parquet(arg, F_PX)
StoreAppend ==
    LET r == append_parquet(arg, F_PX)
    IN  /\ ret.n < 2
        /\ F_PX' = r.file
        /\ ret' = [ret EXCEPT !.n = @ + 1, !.df = r.df]
        /\ UNCHANGED <<legacy_concat, today, F_SM, F_EX, F_SIG, signals_all,
                       sent, runs, arg>>

SpecStore == StoreInit /\ [][StoreAppend]_vars

\* C1: after append_parquet the file holds the frame returned, which has
\* exactly one row for every date of the stored series or of new_rows, and
\* that row is the last one of its date in the order stored rows, then
\* new_rows -- also when the same rows are appended a second time.
C1_LastWriteWins ==
    ret.n > 0 =>
        LET all == ret.old \o arg
            out == ret.df
        IN  /\ F_PX = FileOf(out)
            /\ UniqueDates(out)
            /\ Dates(out) = Dates(all)
            /\ \A i \in 1..Len(out) :
                   \E j \in 1..Len(all) :
                      /\ all[j] = out[i]
                      /\ \A m \in (j + 1)..Len(all) : all[m].ts # out[i].ts

\* a new row has replaced a stored row of its date with another price,
\* next to a stored row of another date, and the append was repeated
C1_Witness ==
    /\ ret.n = 2
    /\ \E i \in 1..Len(ret.old), j \in 1..Len(arg) :
          /\ ret.old[i].ts = arg[j].ts
          /\ ret.old[i].price_usd # arg[j].price_usd
          /\ \E m \in 1..Len(ret.df) : ret.df[m] = arg[j]
    /\ \E i \in 1..Len(ret.old) :
          /\ ~HasDate(arg, ret.old[i].ts)
          /\ \E m \in 1..Len(ret.df) : ret.df[m] = ret.old[i]

(***************************************************************************)
(* append_parquet step by step, in a process that can be killed at any     *)
(* point: the merge in memory (lines 76-80), then to_parquet(path), which  *)
(* opens the file of the series itself for writing -- truncating it --     *)
(* and is done when the file is closed.                                    *)
(***************************************************************************)
Truncated == [exists |-> TRUE, whole |-> FALSE, rows |-> <<>>]

StoredFile(old) == IF old = <<>> THEN NoFile ELSE FileOf(old)

CrashInit ==
    /\ legacy_concat \in BOOLEAN
    /\ runs = 0
    /\ today = 0
    /\ F_SM = NoFile
    /\ F_EX = NoFile
    /\ F_SIG = NoFile
    /\ signals_all = <<>>
    /\ sent = [kind |-> "none", row |-> <<>>]
    /\ \E old \in {df \in SeqsUpTo(PriceRows, MaxStored) : UniqueDates(df)} :
          /\ F_PX = StoredFile(old)
          /\ ret = [pc |-> "start", old |-> old, df |-> <<>>]
    /\ arg \in SeqsUpTo(PriceRows, MaxNew) \ {<<>>}

\* lines 76-80: read, concat, drop_duplicates
MergeInMemory ==
    /\ ret.pc = "start"
    /\ ret' = [ret EXCEPT !.pc = "merged",
                          !.df = append_parquet(arg, F_PX).df]
    /\ UNCHANGED <<legacy_concat, today, F_SM, F_EX, F_PX, F_SIG, signals_all,
                   sent, runs, arg>>

\* line 81, df_all.to_parquet(path): the file is opened for writing
OpenForWrite ==
    /\ ret.pc = "merged"
    /\ ret' = [ret EXCEPT !.pc = "writing"]
    /\ F_PX' = Truncated
    /\ UNCHANGED <<legacy_concat, today, F_SM, F_EX, F_SIG, signals_all, sent,
                   runs, arg>>

\* line 81: the rows are written and the file is closed
FinishWrite ==
    /\ ret.pc = "writing"
    /\ ret' = [ret EXCEPT !.pc = "done"]
    /\ F_PX' = to_parquet(ret.df)
    /\ UNCHANGED <<legacy_concat, today, F_SM, F_EX, F_SIG, signals_all, sent,
                   runs, arg>>

\* the process is killed before append_parquet returns
Crash ==
    /\ ret.pc \in {"start", "merged", "writing"}
    /\ ret' = [ret EXCEPT !.pc = "crashed"]
    /\ UNCHANGED <<legacy_concat, today, F_SM, F_EX, F_PX, F_SIG, signals_all,
                   sent, runs, arg>>

CrashNext == MergeInMemory \/ OpenForWrite \/ FinishWrite \/ Crash

SpecCrash == CrashInit /\ [][CrashNext]_vars

\* C3: after a crash during an append, the file of the series is the
\* complete series as it was before the append or the complete merged
\* series, never a partly written one.
C3_CrashAtomic ==
    ret.pc = "crashed" =>
        \/ F_PX = StoredFile(ret.old)
        \/ F_PX = append_parquet(arg, StoredFile(ret.old)).file

(***************************************************************************)
(* zscore_ewm on its own: any series of at most MaxLen cells.              *)
(***************************************************************************)
MaxLen == 7

ZCells == {NaN, Num(-1), Num(2)}

ZInit ==
    /\ legacy_concat = FALSE
    /\ NoData
    /\ arg \in SeqsUpTo(ZCells, MaxLen)
    /\ ret = [done |-> FALSE, z |-> <<>>]

\* zscore_ewm(arg)
ZApply ==
    /\ ~ret.done
    /\ ret' = [done |-> TRUE, z |-> zscore_ewm(arg)]
    /\ UNCHANGED <<legacy_concat, today, F_SM, F_EX, F_PX, F_SIG, signals_all,
                   sent, runs, arg>>

SpecZ == ZInit /\ [][ZApply]_vars

\* the divisor of row i: the standard deviation after .replace(0, 1e-12)
Divisor(series, i) == replace_zero(ewm_std(Ewm(series)[i], MIN_PERIODS))

\* C7: zscore_ewm returns a series as long as its input, every entry a
\* finite number: 0.0 at a row with fewer than min_periods observations
\* up to it and at a row whose input is null, and no row is divided by a
\* standard deviation of zero.
C7_Total ==
    ret.done =>
        /\ Len(ret.z) = Len(arg)
        /\ \A i \in 1..Len(arg) :
              /\ ZIsFinite(ret.z[i])
              /\ Cardinality({j \in 1..i : ~isna(arg[j])}) < MIN_PERIODS
                     => ret.z[i] = ZZero
              /\ isna(arg[i]) => ret.z[i] = ZZero
              /\ Divisor(arg, i).k = "num" => Divisor(arg, i).num # <<>>

\* a series with a null, with a row whose standard deviation is zero
\* (replaced by the epsilon) and with a row whose z-score is not zero
C7_Witness ==
    /\ ret.done
    /\ \E i \in 1..Len(arg) : isna(arg[i])
    /\ \E i \in 1..Len(arg) : Divisor(arg, i) = EpsSquared
    /\ \E i \in 1..Len(arg) : ret.z[i] # ZZero

(***************************************************************************)
(* The returns of build_signal on their own (lines 383-392): a smart-money *)
(* series with a row for each of the dates 1..n, and a price series,       *)
(* stored newest first, with a row for each of these dates but one (hole)  *)
(* and the same close on every date but one (peak).                        *)
(***************************************************************************)
MaxRows == 32

flat_sm(n) ==
    AsSeq([i \in 1..n |->
        [ts |-> i, symbol |-> "ETH_BASKET_MULTI", volume24hUSD |-> Num(0),
         volume7dUSD |-> Num(0), volume30dUSD |-> Num(0)]])

RECURSIVE prices_newest_first(_, _, _)
prices_newest_first(n, hole, peak) ==
    IF n = 0 THEN <<>>
    ELSE (IF n = hole THEN <<>>
          ELSE <<[ts |-> n,
                  price_usd |-> Num(IF n = peak THEN 200 ELSE 100)]>>)
         \o prices_newest_first(n - 1, hole, peak)

RetInit ==
    /\ legacy_concat = FALSE
    /\ NoData
    /\ \E n \in 0..MaxRows :
          \E hole, peak \in 0..n :
              arg = [sm_df |-> flat_sm(n), ex_df |-> <<>>,
                     px_df |-> prices_newest_first(n, hole, peak)]
    /\ ret = [done |-> FALSE, df |-> <<>>, px_ret_7d |-> <<>>,
              px_ret_30d |-> <<>>]

\* lines 383-392 of build_signal
RetApply ==
    LET df == merged_frame(arg.sm_df, arg.ex_df, arg.px_df)
    IN  /\ ~ret.done
        /\ ret' = [done |-> TRUE, df |-> df, px_ret_7d |-> returns(df, 7),
                   px_ret_30d |-> returns(df, 30)]
        /\ UNCHANGED <<legacy_concat, today, F_SM, F_EX, F_PX, F_SIG,
                       signals_all, sent, runs, arg>>

SpecRet == RetInit /\ [][RetApply]_vars

\* the price stored for date d, if any
StoredPrice(px_df, d) ==
    IF HasDate(px_df, d) THEN RowAt(px_df, d).price_usd ELSE NaN

\* C8: for k = 7 and k = 30, row i of the merged frame (sorted by date)
\* has the return price[i] / price[i-k] - 1, in percent
\* 100 * price[i] / price[i-k] - 100, against the row k positions above;
\* it is null in the first k rows and when either price is missing, and
\* a missing price is not taken from a neighbouring row.
C8_Returns ==
    ret.done =>
        /\ \A i \in 1..Len(ret.df) : ret.df[i].ts = i
        /\ \A k \in {7, 30} :
              LET r == IF k = 7 THEN ret.px_ret_7d ELSE ret.px_ret_30d
                  price(i) == StoredPrice(arg.px_df, i)
              IN  /\ Len(r) = Len(arg.sm_df)
                  /\ \A i \in 1..Len(r) :
                        IF i <= k \/ isna(price(i)) \/ isna(price(i - k))
                        THEN isna(r[i])
                        ELSE /\ IsNum(r[i])
                             /\ (r[i].v + 100) * price(i - k).v
                                    = 100 * price(i).v

\* a frame with a 30-day return that is a number other than 0, and with
\* a missing price both at a row and k rows above a row, for k = 7
C8_Witness ==
    /\ ret.done
    /\ \E i \in 1..Len(ret.px_ret_30d) :
          IsNum(ret.px_ret_30d[i]) /\ ret.px_ret_30d[i].v # 0
    /\ \E i \in 8..Len(ret.df) :
          /\ isna(ret.df[i].price_usd)
          /\ IsNum(ret.df[i - 7].price_usd)
          /\ isna(ret.px_ret_7d[i])
          /\ i + 7 <= Len(ret.df) /\ isna(ret.px_ret_7d[i + 7])

(***************************************************************************)
(* Lines 456-463 of main on their own: the row of today is taken from a    *)
(* signal table, appended to the signal file and handed to the notifier.   *)
(* The table is any table build_signal can return as far as these lines    *)
(* read it -- rows of unique dates, sorted ascending, each with its        *)
(* signal -- with or without a row for today; the signal file holds any    *)
(* rows of earlier runs.                                                   *)
(***************************************************************************)
SignalRows == {[ts |-> d, signal |-> g] : d \in 0..MaxKey, g \in {"hold", "long"}}

SignalTables ==
    {t \in SeqsUpTo(SignalRows, MaxKey + 1) :
        t # <<>> /\ \A i \in 1..(Len(t) - 1) : t[i].ts < t[i + 1].ts}

TodayInit ==
    /\ legacy_concat = FALSE
    /\ runs = 0
    /\ today \in 0..(MaxKey + 1)
    /\ F_SM = NoFile
    /\ F_EX = NoFile
    /\ F_PX = NoFile
    /\ \E old \in {df \in SeqsUpTo(SignalRows, MaxStored) : UniqueDates(df)} :
          /\ F_SIG = StoredFile(old)
          /\ ret = [done |-> FALSE, old |-> old]
    /\ signals_all = <<>>
    /\ sent = [kind |-> "none", row |-> <<>>]
    /\ arg \in SignalTables

\* lines 456-463 and the notification, for signals_all = arg
Extract ==
    LET sig == today_row(arg)
    IN  /\ ~ret.done
        /\ ret' = [ret EXCEPT !.done = TRUE]
        /\ signals_all' = arg
        /\ F_SIG' = append_parquet(sig, F_SIG).file
        /\ sent' = [kind |-> "signal", row |-> <<sig[Len(sig)]>>]
        /\ UNCHANGED <<legacy_concat, today, F_SM, F_EX, F_PX, runs, arg>>

SpecToday == TodayInit /\ [][Extract]_vars

\* the row the run is to publish: today's, or else the one of the
\* greatest date
Wanted(table) ==
    IF HasDate(table, today) THEN RowAt(table, today)
    ELSE RowAt(table, CHOOSE d \in Dates(table) : \A e \in Dates(table) : e <= d)

\* C11: the row taken from the signal table is the row of today when the
\* table has one, and the row of the greatest date otherwise; exactly
\* that row goes to the notifier and into the signal file, where it is
\* the only row of its date next to the stored rows of the other dates.
C11_TodayOrLatest ==
    ret.done =>
        LET want == Wanted(signals_all)
            rows == read_parquet_safe(F_SIG)
        IN  /\ sent = [kind |-> "signal", row |-> <<want>>]
            /\ UniqueDates(rows)
            /\ {rows[i] : i \in 1..Len(rows)}
                  = {ret.old[i] : i \in {j \in 1..Len(ret.old) :
                                             ret.old[j].ts # want.ts}}
                    \cup {want}

\* a table of several rows without one for today: the row of its
\* greatest date has been sent and has replaced another stored row of
\* that date
C11_Witness ==
    /\ ret.done
    /\ ~HasDate(signals_all, today)
    /\ Len(signals_all) >= 2
    /\ sent.row = <<signals_all[Len(signals_all)]>>
    /\ \E i \in 1..Len(ret.old) :
          /\ ret.old[i].ts = sent.row[1].ts
          /\ ret.old[i] # sent.row[1]
    /\ \E i \in 1..Len(ret.old) : ret.old[i].ts # sent.row[1].ts

=============================================================================
